---- MODULE Spec2Model ----
(***************************************************************************)
(* SlowFlow3D: preprocessing look-up tables (data/util.py), the forward    *)
(* scatter and the flow loss (models/FastFlow3DModelScatter.py) and the    *)
(* grid configuration (train.py).                                          *)
(*                                                                         *)
(* The five parts share no state; each has its own specification:         *)
(*   SpecPre   preprocess / merge_look_up_tables on one output directory   *)
(*   SpecFwd   _transform_point_cloud_to_embeddings and the scatter        *)
(*   SpecLoss  general_step / compute_metrics / training_step              *)
(*   SpecGrid  cli's grid values, the bounds filter and the pillar index   *)
(*   SpecOpt   the constructor's hyperparameters and configure_optimizers  *)
(* Real numbers are modelled exactly (rationals as integer pairs); float   *)
(* rounding is outside the model.                                          *)
(***************************************************************************)
EXTENDS Integers, Sequences, FiniteSets, TLC

VARIABLES
    \* ---- preprocess / merge (data/util.py)
    given,        \* the TFRecord files preprocess is called on
    nframes,      \* frames held by each TFRecord file
    limit,        \* frames_per_segment: {} for None, {L} for the number L
    ppc,          \* position of each preprocess call
    pj,           \* loop index j of each preprocess call
    plut,         \* local look_up_table of each preprocess call
    pprev,        \* previous_frame of each preprocess call
    pcFiles,      \* point-cloud files of the output directory: path -> content
    frag,         \* look_up_table_<name> files of the output directory
    table,        \* the file look_up_table of the output directory
    produced,     \* fragment names in the order in which they were first written
    mpc,          \* position of merge_look_up_tables
    listing,      \* what glob.glob returned
    mi,           \* number of listed files already read
    mlut,         \* merge's local look_up_table
    dirAtGlob,    \* the fragments as they were when glob ran
    merges,       \* merge invocations so far
    input_path,   \* merge's argument: how it names the output directory
    subdir,       \* whether merge finds a directory <input_path>/<input_path>
    subtable,     \* the file look_up_table of that directory
    previous,     \* the merge before this one: what it listed and merged
    \* ---- forward (models/FastFlow3DModelScatter.py)
    fpc,          \* position of forward
    net,          \* the point feature net: point -> embedding
    batch_pc,     \* current_batch_pc: the point at (batch element, position)
    batch_grid,   \* current_batch_grid: the pillar id at (batch element, position)
    batch_mask,   \* current_batch_mask: TRUE marks a padded position
    pc_embedding, \* current_batch_pc_embedding
    pillar_embeddings, \* current_pillar_embeddings
    \* ---- general_step / compute_metrics (models/FastFlow3DModelScatter.py)
    lpc,          \* position of training_step
    y,            \* the batch's targets: (vx, vy, vz, label) at (batch element, position)
    y_hat,        \* the predictions self(x): a flow at (batch element, position)
    x_mask,       \* x[1][2]: the current frame's mask, TRUE marks padding
    sel_y,        \* y[current_frame_masks]
    sel_y_hat,    \* y_hat[current_frame_masks]
    loss,         \* the loss general_step returns
    metrics,      \* the metrics general_step returns
    returned,     \* what training_step returns
    \* ---- cli (train.py), the bounds filter and the pillarizer
    gpc,          \* position: arguments parsed, grid derived, points filtered, pillarized
    args,         \* x_min, x_max, y_min, y_max, z_min, z_max, grid_size
    grid_cell_size,  \* a number num / den
    n_pillars_x,
    n_pillars_y,
    cloud,        \* the points of a frame, (x, y, z) each
    grid_indices, \* (ix, iy) of each point of the cloud
    \* ---- __init__ / configure_optimizers (models/FastFlow3DModelScatter.py)
    opc,          \* position: arguments chosen, module constructed, optimizer built
    ctor_args,    \* keyword arguments given to the constructor
    hparams,      \* self.hparams
    adam          \* lr, betas and weight_decay of the torch.optim.Adam returned

preVars == <<given, nframes, limit, ppc, pj, plut, pprev, pcFiles, frag, table,
             produced, mpc, listing, mi, mlut, dirAtGlob, merges, input_path,
             subdir, subtable, previous>>

fwdVars == <<fpc, net, batch_pc, batch_grid, batch_mask, pc_embedding,
             pillar_embeddings>>

lossVars == <<lpc, y, y_hat, x_mask, sel_y, sel_y_hat, loss, metrics, returned>>

gridVars == <<gpc, args, grid_cell_size, n_pillars_x, n_pillars_y, cloud,
              grid_indices>>

optVars == <<opc, ctor_args, hparams, adam>>

vars == <<preVars, fwdVars, lossVars, gridVars, optVars>>
notPre == <<fwdVars, lossVars, gridVars, optVars>>
notFwd == <<preVars, lossVars, gridVars, optVars>>
notLoss == <<preVars, fwdVars, gridVars, optVars>>
notGrid == <<preVars, fwdVars, lossVars, optVars>>
notOpt == <<preVars, fwdVars, lossVars, gridVars>>

\* ---------------------------------------------------------------- bounds
MaxFrames == 3
MaxMerges == 2

\* ------------------------------------------------------------- helpers
\* a file of the directory: not there, or there with its content
NoFile == [present |-> FALSE, content |-> <<>>]
File(c) == [present |-> TRUE, content |-> c]
\* frames_per_segment = None
None == {}

RECURSIVE ConcatAll(_, _)
\* the sequences content[names[1]], content[names[2]], ... joined
ConcatAll(names, content) ==
    IF names = <<>> THEN <<>>
    ELSE content[Head(names)] \o ConcatAll(Tail(names), content)

RECURSIVE SeqsOf(_)
\* every ordering of the finite set S, as sequences without repetition
SeqsOf(S) ==
    IF S = {} THEN {<<>>}
    ELSE UNION {{<<x>> \o s : s \in SeqsOf(S \ {x})} : x \in S}

Range(s) == {s[i] : i \in 1..Len(s)}

\* ------------------------------------------- preprocess (data/util.py)
\* TFRecord files, as <<directory, name, extension>>
SourceFiles ==
    {<<"rec", "segA", ".tfrecord">>, <<"rec", "segB", ".tfrecord">>,
     <<"old", "segA", ".tfrecord">>}
\* the files one run preprocesses in parallel: rec/segA.tfrecord and one
\* other file, of another name or of the same name in another directory
GivenFiles ==
    {S \in SUBSET SourceFiles :
        Cardinality(S) = 2 /\ <<"rec", "segA", ".tfrecord">> \in S}

\* os.path.basename
Basename(path) == <<path[2], path[3]>>
\* os.path.splitext(...)[0]
SplitextRoot(base) == base[1]
\* tfrecord_filename of a source file
TfrecordFilename(f) == SplitextRoot(Basename(f))

Names == {TfrecordFilename(f) : f \in SourceFiles}

\* look_up_table_path: output_path/look_up_table_<tfrecord_filename>, the
\* file name as its parts
LookUpTablePath(f) == <<"look_up_table", "_", TfrecordFilename(f)>>
\* the fragment files preprocess may write
FragmentNames == {LookUpTablePath(f) : f \in SourceFiles}
\* line 339: the name of the file merge writes, as its parts
TablePath == <<"look_up_table">>
\* the look-up table files the output directory may hold
DirNames == FragmentNames \cup {TablePath}
\* point_cloud_path: output_path/pointCloud_file_<tfrecord_filename>_frame_<j>.npy
PointCloudPath(f, j) == [name |-> TfrecordFilename(f), frame |-> j]
\* list(frame.pose.transform) of frame j of file f, as decoded
PoseTransform(f, j) == [file |-> f, frame |-> j]
\* the [N, 9] array np.save stores for frame j of file f
PointCloud(f, j) == [file |-> f, frame |-> j]

PcPaths == {[name |-> n, frame |-> j] : n \in Names, j \in 0..MaxFrames}

\* no merge has completed on the directory as it is now
NoMerge == [quiet |-> FALSE, listing |-> <<>>, lut |-> <<>>]

\* The limits are those that end the loop of some file early: the test of
\* line 258 follows frame j = L, so a limit of MaxFrames - 1 or more leaves
\* a file of at most MaxFrames frames as None does.
PreInit ==
    /\ given \in GivenFiles
    /\ nframes \in [SourceFiles -> 0..MaxFrames]
    /\ \A f \in SourceFiles \ given : nframes[f] = 0
    /\ limit \in {None} \cup {{l} : l \in 1..(MaxFrames - 2)}
    /\ ppc = [f \in SourceFiles |-> "idle"]
    /\ pj = [f \in SourceFiles |-> 0]
    /\ plut = [f \in SourceFiles |-> <<>>]
    /\ pprev = [f \in SourceFiles |-> <<>>]
    /\ pcFiles = [p \in PcPaths |-> NoFile]
    /\ frag = [n \in FragmentNames |-> NoFile]
    /\ table = NoFile
    /\ produced = <<>>
    /\ mpc = "idle"
    /\ listing = <<>>
    /\ mi = 0
    /\ mlut = <<>>
    /\ dirAtGlob = [n \in DirNames |-> NoFile]
    /\ merges = 0
    /\ input_path = "none"
    /\ subdir = FALSE
    /\ subtable = NoFile
    /\ previous = NoMerge

mergeVars == <<table, mpc, listing, mi, mlut, dirAtGlob, merges, input_path,
               subdir, subtable, previous>>

\* preprocess is called on f: lines 239-247, up to the first test of the loop
PreprocessStart(f) ==
    /\ f \in given
    /\ ppc[f] = "idle"
    /\ ppc' = [ppc EXCEPT ![f] = IF nframes[f] = 0 THEN "dump" ELSE "loop"]
    /\ pj' = [pj EXCEPT ![f] = 0]
    /\ plut' = [plut EXCEPT ![f] = <<>>]
    /\ pprev' = [pprev EXCEPT ![f] = <<>>]
    /\ UNCHANGED <<given, nframes, limit, pcFiles, frag, produced>>
    /\ UNCHANGED mergeVars
    /\ UNCHANGED notPre

\* the test of line 258 after frame j
BreakAfter(j) == limit # None /\ j \in limit

AppendAlways(lut, j, current_frame, previous_frame) ==
    Append(lut, <<current_frame, previous_frame>>)

\* lines 252-257: the look-up table after frame j
LinkFrame(lut, j, current_frame, previous_frame) ==
    IF j = 0 THEN lut ELSE Append(lut, <<current_frame, previous_frame>>)

\* one iteration of the loop of lines 248-259, on frame j
PreprocessFrame(f) ==
    /\ ppc[f] = "loop"
    /\ LET j == pj[f]
           path == PointCloudPath(f, j)
           current_frame == <<path, PoseTransform(f, j)>>
       IN /\ pcFiles' = [pcFiles EXCEPT ![path] = File(PointCloud(f, j))]
          /\ plut' = [plut EXCEPT ![f] = LinkFrame(@, j, current_frame, pprev[f])]
          /\ pprev' = [pprev EXCEPT ![f] = current_frame]
          /\ pj' = [pj EXCEPT ![f] = j + 1]
          /\ ppc' = [ppc EXCEPT ![f] =
                IF BreakAfter(j) \/ j + 1 >= nframes[f] THEN "dump" ELSE "loop"]
    /\ UNCHANGED <<given, nframes, limit, frag, produced>>
    /\ UNCHANGED mergeVars
    /\ UNCHANGED notPre

\* lines 262-263: the fragment is written
PreprocessDump(f) ==
    /\ ppc[f] = "dump"
    /\ frag' = [frag EXCEPT ![LookUpTablePath(f)] = File(plut[f])]
    /\ produced' = IF LookUpTablePath(f) \in Range(produced) THEN produced
                   ELSE Append(produced, LookUpTablePath(f))
    /\ ppc' = [ppc EXCEPT ![f] = "done"]
    /\ UNCHANGED <<given, nframes, limit, pj, plut, pprev, pcFiles>>
    /\ UNCHANGED mergeVars
    /\ UNCHANGED notPre

\* ---------------------------------- merge_look_up_tables (data/util.py)
preprocVars == <<given, nframes, limit, ppc, pj, plut, pprev, pcFiles, produced>>

\* the file of that name in the output directory
DirFile(name) == IF name = TablePath THEN table ELSE frag[name]

GlobPatternNoUnderscore == <<"look_up_table", "*">>

\* line 328: the pattern "look_up_table_*", as its parts
GlobPattern == <<"look_up_table", "_", "*">>

RECURSIVE Fnmatch(_, _)
\* whether the name matches the pattern; "*", the pattern's last part,
\* matches any rest of the name, the empty one too
Fnmatch(name, pattern) ==
    IF pattern = <<>> THEN name = <<>>
    ELSE IF Head(pattern) = "*" THEN TRUE
    ELSE /\ name # <<>>
         /\ Head(name) = Head(pattern)
         /\ Fnmatch(Tail(name), Tail(pattern))

\* what glob.glob("look_up_table_*") matches in the output directory
GlobMatches ==
    {name \in DirNames : DirFile(name).present /\ Fnmatch(name, GlobPattern)}

\* merge has written its table and no fragment changed while it ran
MergedQuietly ==
    mpc = "done" /\ \A n \in FragmentNames : frag[n] = dirAtGlob[n]

\* input_path names the output directory either by an absolute path or by
\* a path relative to the working directory of the call, such as data/out
InputPaths == {"absolute", "relative"}

\* whether the output directory holds a directory of the relative
\* input_path's own name, as the file system has it at this call; the one
\* an earlier merge wrote a table into is there
SubdirExists(path) ==
    IF path = "absolute" THEN {subdir}
    ELSE IF subtable.present THEN {TRUE} ELSE BOOLEAN

\* lines 321-328: merge is called from the directory the program was started
\* in; os.chdir(input_path) makes the output directory the working
\* directory, which is listed, in the order the file system gives
MergeStart ==
    /\ mpc \in {"idle", "done", "error", "no directory"}
    /\ merges < MaxMerges
    /\ merges' = merges + 1
    /\ input_path' \in InputPaths
    /\ subdir' \in SubdirExists(input_path')
    /\ previous' = IF MergedQuietly
                   THEN [quiet |-> TRUE, listing |-> listing, lut |-> mlut]
                   ELSE NoMerge
    /\ listing' \in SeqsOf(GlobMatches)
    /\ dirAtGlob' = [name \in DirNames |-> DirFile(name)]
    /\ mi' = 0
    /\ mlut' = <<>>
    /\ mpc' = "reading"
    /\ UNCHANGED <<table, frag, subtable>>
    /\ UNCHANGED preprocVars
    /\ UNCHANGED notPre

ExtendInFront(look_up_table, look_up_table_local) ==
    look_up_table_local \o look_up_table

\* line 333: look_up_table.extend(look_up_table_local)
Extend(look_up_table, look_up_table_local) ==
    look_up_table \o look_up_table_local

\* lines 329-333: the next listed file is opened and its entries appended
MergeRead ==
    /\ mpc = "reading"
    /\ mi < Len(listing)
    /\ DirFile(listing[mi + 1]).present
    /\ mlut' = Extend(mlut, DirFile(listing[mi + 1]).content)
    /\ mi' = mi + 1
    /\ UNCHANGED <<table, mpc, listing, dirAtGlob, merges, frag, input_path,
                   subdir, subtable, previous>>
    /\ UNCHANGED preprocVars
    /\ UNCHANGED notPre

MergeReadFailDumps ==
    /\ mpc = "reading"
    /\ mi < Len(listing)
    /\ ~DirFile(listing[mi + 1]).present
    /\ table' = File(mlut)
    /\ mpc' = "error"
    /\ UNCHANGED <<listing, mi, mlut, dirAtGlob, merges, frag, input_path,
                   subdir, subtable, previous>>
    /\ UNCHANGED preprocVars
    /\ UNCHANGED notPre

\* lines 334-336: the listed file is gone, FileNotFoundError is raised;
\* the dump of lines 339-340 is not reached
MergeReadFail ==
    /\ mpc = "reading"
    /\ mi < Len(listing)
    /\ ~DirFile(listing[mi + 1]).present
    /\ mpc' = "error"
    /\ UNCHANGED <<table, listing, mi, mlut, dirAtGlob, merges, frag,
                   input_path, subdir, subtable, previous>>
    /\ UNCHANGED preprocVars
    /\ UNCHANGED notPre

\* line 339: the directory of os.path.join(input_path, "look_up_table").
\* The path is resolved against the working directory, which line 327 has
\* made the output directory: an absolute input_path is the output
\* directory, a relative one is looked up inside the output directory.
DumpDirectory(path) ==
    IF path = "absolute" THEN "input_path" ELSE "input_path/input_path"

\* lines 339-340: the merged table is written
MergeDump ==
    /\ mpc = "reading"
    /\ mi = Len(listing)
    /\ \/ /\ DumpDirectory(input_path) = "input_path"
          /\ table' = File(mlut)
          /\ UNCHANGED subtable
       \/ /\ DumpDirectory(input_path) = "input_path/input_path"
          /\ subdir
          /\ subtable' = File(mlut)
          /\ UNCHANGED table
    /\ mpc' = "done"
    /\ UNCHANGED <<listing, mi, mlut, dirAtGlob, merges, frag, input_path, subdir,
                   previous>>
    /\ UNCHANGED preprocVars
    /\ UNCHANGED notPre

\* line 339: open(..., 'wb') finds no directory to create the file in and
\* raises FileNotFoundError
MergeDumpFail ==
    /\ mpc = "reading"
    /\ mi = Len(listing)
    /\ DumpDirectory(input_path) = "input_path/input_path"
    /\ ~subdir
    /\ mpc' = "no directory"
    /\ UNCHANGED <<table, listing, mi, mlut, dirAtGlob, merges, frag, input_path,
                   subdir, subtable, previous>>
    /\ UNCHANGED preprocVars
    /\ UNCHANGED notPre

\* another program removes a fragment from the directory
RemoveFragment(n) ==
    /\ frag[n].present
    /\ mpc = "reading"
    /\ frag' = [frag EXCEPT ![n] = NoFile]
    /\ UNCHANGED mergeVars
    /\ UNCHANGED preprocVars
    /\ UNCHANGED notPre

NextPre ==
    \/ \E f \in SourceFiles : PreprocessStart(f)
    \/ \E f \in SourceFiles : PreprocessFrame(f)
    \/ \E f \in SourceFiles : PreprocessDump(f)
    \/ MergeStart
    \/ MergeRead
    \/ MergeReadFail
    \/ MergeDump
    \/ MergeDumpFail
    \/ \E n \in FragmentNames : RemoveFragment(n)

\* the optimizer is not part of this specification
OptOff == opc = "off" /\ ctor_args = <<>> /\ hparams = <<>> /\ adam = <<>>

\* cli and the pillarizer are not part of this specification
GridOff ==
    /\ gpc = "off" /\ args = <<>> /\ grid_cell_size = <<>> /\ n_pillars_x = 0
    /\ n_pillars_y = 0 /\ cloud = <<>> /\ grid_indices = <<>>

\* general_step is not part of this specification
LossOff ==
    /\ lpc = "off" /\ y = <<>> /\ y_hat = <<>> /\ x_mask = <<>>
    /\ sel_y = <<>> /\ sel_y_hat = <<>> /\ loss = <<>> /\ metrics = <<>>
    /\ returned = <<>>

\* the forward pass is not part of this specification
FwdOff ==
    /\ fpc = "off"
    /\ net = <<>>
    /\ batch_pc = <<>>
    /\ batch_grid = <<>>
    /\ batch_mask = <<>>
    /\ pc_embedding = <<>>
    /\ pillar_embeddings = <<>>

InitPre == PreInit /\ FwdOff /\ LossOff /\ GridOff /\ OptOff

SpecPre == InitPre /\ [][NextPre]_vars

\* --------------------- forward (models/FastFlow3DModelScatter.py)
\* batch elements (batch_size = 2) and the features of an embedding (64 in
\* the code, 2 here)
Batch == {0, 1}
Features == {1, 2}
\* pillar ids pid = iy * n_x + ix of a grid of two pillars
Pillars == {0, 1}
\* max_points: positions per batch element
MaxPoints == 2
Positions == 0..(MaxPoints - 1)

\* points: the zero-filled placeholder of a padded position and two real ones
PadPoint == "pad"
RealPoints == {"p1", "p2"}
\* embeddings the point feature net may give
Embeddings == {<<1, 2>>, <<3, 0>>, <<-1, -2>>, <<0, 0>>}
ZeroEmbedding == [c \in Features |-> 0]

\* the masks of a batch element: padding fills the positions after the points
PaddingMasks == {[i \in Positions |-> i >= n] : n \in 0..MaxPoints}

FwdInit ==
    /\ fpc = "input"
    /\ net \in [RealPoints \cup {PadPoint} -> Embeddings]
    /\ batch_mask \in [Batch -> PaddingMasks]
    /\ batch_pc \in [Batch -> [Positions -> RealPoints \cup {PadPoint}]]
    /\ \A b \in Batch : \A i \in Positions :
            batch_mask[b][i] <=> batch_pc[b][i] = PadPoint
    /\ batch_grid \in [Batch -> [Positions -> Pillars]]
    /\ pc_embedding = <<>>
    /\ pillar_embeddings = <<>>

\* tensor.flatten(0, 1) of a (batch_size, max_points, ...) tensor: row
\* b * max_points + i holds element (b, i)
Flatten01(t) ==
    [k \in 0..(Cardinality(Batch) * MaxPoints - 1) |->
        t[k \div MaxPoints][k % MaxPoints]]

UnflattenColumnMajor(t) ==
    [b \in Batch |-> [i \in Positions |-> t[i * Cardinality(Batch) + b]]]

\* tensor.unflatten(0, (batch_size, max_points))
Unflatten0(t) ==
    [b \in Batch |-> [i \in Positions |-> t[b * MaxPoints + i]]]

\* self._point_feature_net on a (rows, features) tensor: each row's embedding
PointFeatureNet(rows) == [k \in DOMAIN rows |-> net[rows[k]]]

\* line 50: previous_batch_pc_embedding[mask.flatten(0, 1), :] = 0
ZeroMasked(embedding, flat_mask) ==
    [k \in DOMAIN embedding |->
        IF flat_mask[k] THEN ZeroEmbedding ELSE embedding[k]]

\* lines 45-55
TransformPointCloudToEmbeddings(pc, mask) ==
    Unflatten0(ZeroMasked(PointFeatureNet(Flatten01(pc)), Flatten01(mask)))

RECURSIVE MaxOf(_)
\* the largest number of a non-empty finite set
MaxOf(S) ==
    LET e == CHOOSE v \in S : TRUE
    IN IF S = {e} THEN e
       ELSE LET m == MaxOf(S \ {e}) IN IF e > m THEN e ELSE m

\* the pillar feature net's scatter: every pillar gets the element-wise
\* maximum of the embeddings of the positions that carry its id, and an
\* all-zero vector when no position does
PillarFeatureNetScatter(x, indices) ==
    [b \in Batch |-> [p \in Pillars |->
        LET at == {i \in Positions : indices[b][i] = p}
        IN IF at = {} THEN ZeroEmbedding
           ELSE [c \in Features |-> MaxOf({x[b][i][c] : i \in at})]]]

\* lines 87-88
ForwardEmbed ==
    /\ fpc = "input"
    /\ pc_embedding' = TransformPointCloudToEmbeddings(batch_pc, batch_mask)
    /\ fpc' = "embedded"
    /\ UNCHANGED <<net, batch_pc, batch_grid, batch_mask, pillar_embeddings>>
    /\ UNCHANGED notFwd

\* lines 77 and 94: the embeddings of all positions are scattered
ForwardScatter ==
    /\ fpc = "embedded"
    /\ pillar_embeddings' = PillarFeatureNetScatter(pc_embedding, batch_grid)
    /\ fpc' = "scattered"
    /\ UNCHANGED <<net, batch_pc, batch_grid, batch_mask, pc_embedding>>
    /\ UNCHANGED notFwd

NextFwd == ForwardEmbed \/ ForwardScatter

\* preprocess and merge are not part of this specification
PreOff ==
    /\ given = {} /\ nframes = <<>> /\ limit = None /\ ppc = <<>> /\ pj = <<>>
    /\ plut = <<>> /\ pprev = <<>> /\ pcFiles = <<>> /\ frag = <<>>
    /\ table = NoFile /\ produced = <<>> /\ mpc = "off" /\ listing = <<>>
    /\ mi = 0 /\ mlut = <<>> /\ dirAtGlob = <<>> /\ merges = 0
    /\ input_path = "none" /\ subdir = FALSE /\ subtable = NoFile
    /\ previous = NoMerge

InitFwd == FwdInit /\ PreOff /\ LossOff /\ GridOff /\ OptOff

SpecFwd == InitFwd /\ [][NextFwd]_vars

\* ------- general_step / compute_metrics (models/FastFlow3DModelScatter.py)
\* Flows and distances are in tenths of a unit, weights in tenths.
\* self._classes and self._thresholds (1 and 0.1, in tenths)
Classes == <<[label |-> 0, name |-> "background"], [label |-> 1, name |-> "vehicle"],
             [label |-> 2, name |-> "pedestrian"], [label |-> 3, name |-> "sign"],
             [label |-> 4, name |-> "cyclist"]>>
Thresholds == <<[threshold |-> 10, name |-> "1_1"], [threshold |-> 1, name |-> "1_10"]>>
\* torch.ones: the weight 1.0, and background_weight = 0.1
WeightOne == 10
BackgroundWeight == 1

\* what a position of the batch may hold: its target row (vx, vy, vz, label)
\* and the flow predicted for it
PointCases ==
    {[target |-> <<0, 0, 0, 1>>, pred |-> <<0, 0, 0>>],
     [target |-> <<6, 0, 0, 0>>, pred |-> <<0, 8, 0>>],
     [target |-> <<0, 0, 0, -1>>, pred |-> <<1, 0, 0>>],
     [target |-> <<6, 0, 0, 4>>, pred |-> <<1, 0, 0>>],
     [target |-> <<6, 0, 0, -1>>, pred |-> <<0, 0, 0>>]}
\* a padded position: a zero-filled target row and whatever the network gives
PadCase == [target |-> <<0, 0, 0, 0>>, pred |-> <<0, 8, 0>>]

LossInit ==
    /\ lpc = "input"
    /\ \E c \in [Batch -> [Positions -> PointCases \cup {PadCase}]] :
          /\ y = [b \in Batch |-> [i \in Positions |-> c[b][i].target]]
          /\ y_hat = [b \in Batch |-> [i \in Positions |-> c[b][i].pred]]
          /\ x_mask = [b \in Batch |-> [i \in Positions |-> c[b][i] = PadCase]]
    /\ sel_y = <<>>
    /\ sel_y_hat = <<>>
    /\ loss = <<>>
    /\ metrics = <<>>
    /\ returned = <<>>

\* not-a-number, infinity, and the number num / den in lowest terms
NaN == [kind |-> "nan", num |-> 0, den |-> 0]
Inf == [kind |-> "inf", num |-> 0, den |-> 0]
RECURSIVE Gcd(_, _)
Gcd(a, b) == IF b = 0 THEN a ELSE Gcd(b, a % b)
Number(num, den) ==
    [kind |-> "number", num |-> num \div Gcd(num, den), den |-> den \div Gcd(num, den)]

DivOrZero(a, b) == IF b = 0 THEN Number(0, 1) ELSE Number(a, b)

\* tensor / tensor of non-negative values: 0 / 0 is nan, a / 0 is inf
Div(a, b) ==
    IF b = 0 THEN (IF a = 0 THEN NaN ELSE Inf) ELSE Number(a, b)

RECURSIVE SumSeq(_)
\* torch.sum of a one-dimensional tensor
SumSeq(t) == IF t = <<>> THEN 0 ELSE Head(t) + SumSeq(Tail(t))

\* torch.sqrt, on the squares the flows of the model give
Sqrt(n) == CHOOSE r \in 0..n : r * r = n

\* line 138: torch.sqrt(torch.sum((y - y_hat) ** 2, dim=1))
SquaredRootDifference(y_flow, pred) ==
    [k \in 1..Len(y_flow) |->
        Sqrt(SumSeq([c \in 1..3 |-> (y_flow[k][c] - pred[k][c]) * (y_flow[k][c] - pred[k][c])]))]

WeightsKeepIgnored(labels) ==
    [k \in 1..Len(labels) |-> IF labels[k] = 0 THEN BackgroundWeight ELSE WeightOne]

\* lines 142-146: ones, then 0 where the label is -1, then background_weight
\* where it is 0
Weights(labels) ==
    LET ones == [k \in 1..Len(labels) |-> WeightOne]
        ignored == [k \in 1..Len(labels) |-> IF labels[k] = -1 THEN 0 ELSE ones[k]]
    IN [k \in 1..Len(labels) |-> IF labels[k] = 0 THEN BackgroundWeight ELSE ignored[k]]

CorrectUpTo(d, threshold) ==
    Cardinality({k \in 1..Len(d) : d[k] <= threshold})

\* line 155: (squared_root_difference < threshold).sum()
CorrectPrediction(d, threshold) ==
    Cardinality({k \in 1..Len(d) : d[k] < threshold})

\* lines 138-159
ComputeMetrics(y_flow, pred, labels) ==
    LET d == SquaredRootDifference(y_flow, pred)
        weights == Weights(labels)
    IN [loss |-> Div(SumSeq([k \in 1..Len(d) |-> weights[k] * d[k]]), SumSeq(weights)),
        metrics |->
          [t \in {Thresholds[n].name : n \in 1..Len(Thresholds)} |->
            [c \in {Classes[n].name : n \in 1..Len(Classes)} |->
              LET threshold == (CHOOSE n \in 1..Len(Thresholds) :
                                    Thresholds[n].name = t)
              IN Div(CorrectPrediction(d, Thresholds[threshold].threshold), Len(d))]]]

RECURSIVE BoolIndexFrom(_, _, _)
\* the rows of the flattened tensor t from row k on at which m is TRUE
BoolIndexFrom(t, m, k) ==
    IF k >= Cardinality(Batch) * MaxPoints THEN <<>>
    ELSE (IF m[k \div MaxPoints][k % MaxPoints]
          THEN <<t[k \div MaxPoints][k % MaxPoints]>> ELSE <<>>)
         \o BoolIndexFrom(t, m, k + 1)

\* t[m] for a (batch_size, max_points) boolean tensor m: the rows at which m
\* is TRUE, batch element after batch element, position after position
BoolIndex(t, m) == BoolIndexFrom(t, m, 0)

MasksAsGiven(mask) == mask

\* line 182: current_frame_masks = ~x[1][2]
CurrentFrameMasks(mask) == [b \in Batch |-> [i \in Positions |-> ~mask[b][i]]]

\* lines 182-193: the loss and metrics of a batch
GeneralStepResult(targets, predictions, mask) ==
    LET rows == BoolIndex(targets, CurrentFrameMasks(mask))
        pred == BoolIndex(predictions, CurrentFrameMasks(mask))
        y_flow == [k \in 1..Len(rows) |-> SubSeq(rows[k], 1, 3)]
        labels == [k \in 1..Len(rows) |-> rows[k][Len(rows[k])]]
    IN ComputeMetrics(y_flow, pred, labels)

\* lines 175-195
GeneralStep ==
    /\ lpc = "input"
    /\ sel_y' = BoolIndex(y, CurrentFrameMasks(x_mask))
    /\ sel_y_hat' = BoolIndex(y_hat, CurrentFrameMasks(x_mask))
    /\ loss' = GeneralStepResult(y, y_hat, x_mask).loss
    /\ metrics' = GeneralStepResult(y, y_hat, x_mask).metrics
    /\ lpc' = "stepped"
    /\ UNCHANGED <<y, y_hat, x_mask, returned>>
    /\ UNCHANGED notLoss

\* lines 219-224: the loss of general_step is logged and returned
TrainingStep ==
    /\ lpc = "stepped"
    /\ returned' = loss
    /\ lpc' = "returned"
    /\ UNCHANGED <<y, y_hat, x_mask, sel_y, sel_y_hat, loss, metrics>>
    /\ UNCHANGED notLoss

NextLoss == GeneralStep \/ TrainingStep

InitLoss == LossInit /\ PreOff /\ FwdOff /\ GridOff /\ OptOff

SpecLoss == InitLoss /\ [][NextLoss]_vars

\* ------------ cli (train.py), the bounds filter and the pillarizer
\* Coordinates and bounds are whole numbers of one length unit.
\* the command lines of the model: bounds and grid_size
ArgSets ==
    [x_min : {-2, 0, 1}, x_max : {2, 3}, y_min : {-2, 0}, y_max : {2, 3},
     z_min : {-1}, z_max : {1}, grid_size : {1, 2, 4}]
\* the points a frame may hold
Points == (-3..3) \X (-3..3) \X {0, 2}

Abs(v) == IF v < 0 THEN -v ELSE v
\* int(a / b) for b > 0: the quotient cut towards zero
IntOfQuotient(a, b) == IF a >= 0 THEN a \div b ELSE -((-a) \div b)
\* floor(a / b) for b > 0
FloorOfQuotient(a, b) == a \div b

GridInit ==
    /\ gpc = "parsed"
    /\ args \in ArgSets
    /\ grid_cell_size = <<>>
    /\ n_pillars_x = 0
    /\ n_pillars_y = 0
    /\ cloud \in {<<pt>> : pt \in Points}
    /\ grid_indices = <<>>

\* line 51: the lengths x_max + abs(x_min) and y_max + abs(y_min) differ
LengthsDiffer(a) == a.x_max + Abs(a.x_min) # a.y_max + Abs(a.y_min)

\* line 56: (x_max + abs(x_min)) / grid_size
GridCellSize(a) == [num |-> a.x_max + Abs(a.x_min), den |-> a.grid_size]

\* lines 58-59: int((max - min) / grid_cell_size)
NPillars(max, min, cell) == IntOfQuotient((max - min) * cell.den, cell.num)

\* lines 51-54: ValueError
CliValueError ==
    /\ gpc = "parsed"
    /\ LengthsDiffer(args)
    /\ gpc' = "ValueError"
    /\ UNCHANGED <<args, grid_cell_size, n_pillars_x, n_pillars_y, cloud, grid_indices>>
    /\ UNCHANGED notGrid

\* lines 56-59
Cli ==
    /\ gpc = "parsed"
    /\ ~LengthsDiffer(args)
    /\ grid_cell_size' = GridCellSize(args)
    /\ n_pillars_x' = NPillars(args.x_max, args.x_min, GridCellSize(args))
    /\ n_pillars_y' = NPillars(args.y_max, args.y_min, GridCellSize(args))
    /\ gpc' = "configured"
    /\ UNCHANGED <<args, cloud, grid_indices>>
    /\ UNCHANGED notGrid

\* the bounds filter keeps a point whose coordinates all lie within the
\* bounds, the bounds included
WithinBounds(pt, a) ==
    /\ a.x_min <= pt[1] /\ pt[1] <= a.x_max
    /\ a.y_min <= pt[2] /\ pt[2] <= a.y_max
    /\ a.z_min <= pt[3] /\ pt[3] <= a.z_max

\* remove_out_of_bounds_points, as drop_points_function calls it
RemoveOutOfBoundsPoints(pts, a) == SelectSeq(pts, LAMBDA pt : WithinBounds(pt, a))

\* the pillar index (ix, iy) of a point:
\* floor((x - x_min) / cell_size), floor((y - y_min) / cell_size)
PillarIndex(pt, cell, x_min, y_min) ==
    <<FloorOfQuotient((pt[1] - x_min) * cell.den, cell.num),
      FloorOfQuotient((pt[2] - y_min) * cell.den, cell.num)>>

\* create_pillars_matrix, as ApplyPillarization calls it: the grid indices
CreatePillarsMatrix(pts, cell, x_min, y_min) ==
    [k \in 1..Len(pts) |-> PillarIndex(pts[k], cell, x_min, y_min)]

\* drop_points_function(...)(x, y): lines 167-178
DropPoints ==
    /\ gpc = "configured"
    /\ cloud' = RemoveOutOfBoundsPoints(cloud, args)
    /\ gpc' = "filtered"
    /\ UNCHANGED <<args, grid_cell_size, n_pillars_x, n_pillars_y, grid_indices>>
    /\ UNCHANGED notGrid

\* ApplyPillarization.__call__: lines 158-164
Pillarize ==
    /\ gpc = "filtered"
    /\ grid_indices' = CreatePillarsMatrix(cloud, grid_cell_size, args.x_min, args.y_min)
    /\ gpc' = "pillarized"
    /\ UNCHANGED <<args, grid_cell_size, n_pillars_x, n_pillars_y, cloud>>
    /\ UNCHANGED notGrid

NextGrid == CliValueError \/ Cli \/ DropPoints \/ Pillarize

InitGrid == GridInit /\ PreOff /\ FwdOff /\ LossOff /\ OptOff

SpecGrid == InitGrid /\ [][NextGrid]_vars

\* ------- __init__ / configure_optimizers (models/FastFlow3DModelScatter.py)
\* a keyword argument: left out, or given with a value; a value is None or
\* {n} for the number n. Betas are in thousandths, learning rates in
\* millionths.
Omitted == <<>>
Given(v) == <<v>>

\* lines 14-16: the defaults learning_rate=1e-6, adam_beta_1=0.9,
\* adam_beta_2=0.999
DefaultLearningRate == {1}
DefaultAdamBeta1 == {900}
DefaultAdamBeta2 == {999}
\* lines 261-262: the values configure_optimizers falls back to
FallbackBeta1 == {900}
FallbackBeta2 == {999}

BetaValues == {None, {500}, {900}, {990}, {999}}
LearningRateValues == {{1}, {1000}}

OptInit ==
    /\ opc = "new"
    /\ ctor_args \in [learning_rate : {Omitted} \cup {Given(v) : v \in LearningRateValues},
                      adam_beta_1 : {Omitted} \cup {Given(v) : v \in BetaValues},
                      adam_beta_2 : {Omitted} \cup {Given(v) : v \in BetaValues}]
    /\ hparams = <<>>
    /\ adam = <<>>

\* the value a parameter is bound to: the argument, or the default
Bind(arg, default) == IF arg = Omitted THEN default ELSE arg[1]

\* lines 11-18: save_hyperparameters stores the constructor's parameters
Construct ==
    /\ opc = "new"
    /\ hparams' = [learning_rate |-> Bind(ctor_args.learning_rate, DefaultLearningRate),
                   adam_beta_1 |-> Bind(ctor_args.adam_beta_1, DefaultAdamBeta1),
                   adam_beta_2 |-> Bind(ctor_args.adam_beta_2, DefaultAdamBeta2)]
    /\ opc' = "constructed"
    /\ UNCHANGED <<ctor_args, adam>>
    /\ UNCHANGED notOpt

\* lines 260-262: the tuple betas
Betas(hp) ==
    <<IF hp.adam_beta_1 # None THEN hp.adam_beta_1 ELSE FallbackBeta1,
      IF hp.adam_beta_2 # None THEN hp.adam_beta_1 ELSE FallbackBeta2>>

\* lines 252-264
ConfigureOptimizers ==
    /\ opc = "constructed"
    /\ adam' = [lr |-> hparams.learning_rate, betas |-> Betas(hparams),
                weight_decay |-> 0]
    /\ opc' = "optimizer"
    /\ UNCHANGED <<ctor_args, hparams>>
    /\ UNCHANGED notOpt

NextOpt == Construct \/ ConfigureOptimizers

InitOpt == OptInit /\ PreOff /\ FwdOff /\ LossOff /\ GridOff

SpecOpt == InitOpt /\ [][NextOpt]_vars

\* ------------------------------------------------ properties: SpecPre
\* the frame reference (path, pose) of frame k of file f
FrameRef(f, k) == <<PointCloudPath(f, k), PoseTransform(f, k)>>

\* C1: with no frame limit, the table preprocess dumps for a file of
\* n >= 1 frames has n-1 entries, the k-th being
\* [(path k, pose k), (path k-1, pose k-1)]; frame 0 gives no entry and
\* each entry's previous frame is the entry before's current frame.
C1_LookUpTableOfFile ==
    \A f \in SourceFiles :
        (ppc[f] = "done" /\ limit = None /\ nframes[f] >= 1) =>
            /\ Len(plut[f]) = nframes[f] - 1
            /\ \A k \in 1..(nframes[f] - 1) :
                    plut[f][k] = <<FrameRef(f, k), FrameRef(f, k - 1)>>
            /\ \A k \in 2..(nframes[f] - 1) :
                    plut[f][k][2] = plut[f][k - 1][1]

C1_Witness ==
    \E f \in SourceFiles :
        /\ ppc[f] = "done" /\ limit = None /\ nframes[f] = 3
        /\ Len(plut[f]) = 2
        /\ frag[LookUpTablePath(f)] = File(plut[f])

\* the entries of the fragments that were in the directory when it was listed
ContentAtGlob == [n \in DirNames |-> dirAtGlob[n].content]
\* the file look_up_table that merge wrote
MergedTable ==
    IF DumpDirectory(input_path) = "input_path" THEN table ELSE subtable
\* the fragments listed, in the order in which preprocess first wrote them
ProducedOrder == SelectSeq(produced, LAMBDA n : n \in Range(listing))
\* number of places of the sequence s that hold e
Occurrences(s, e) == Cardinality({i \in 1..Len(s) : s[i] = e})

\* C9 as stated: the merged table is the fragments joined in the order in
\* which they were produced.
C9_ProductionOrder ==
    MergedQuietly => MergedTable.content = ConcatAll(ProducedOrder, ContentAtGlob)

\* C9 amended: the merged table is the fragments joined in the order in
\* which the directory listing returned them (any order), entries in
\* their order within the fragment; every entry of every fragment is in
\* it exactly once.
C9_ListingOrder ==
    MergedQuietly =>
        /\ Range(listing) = {n \in FragmentNames : dirAtGlob[n].present}
        /\ MergedTable.present
        /\ MergedTable.content = ConcatAll(listing, ContentAtGlob)
        /\ \A n \in Range(listing) : \A i \in 1..Len(ContentAtGlob[n]) :
                Occurrences(MergedTable.content, ContentAtGlob[n][i]) = 1

C9_Witness ==
    /\ MergedQuietly
    /\ Len(listing) = 2
    /\ listing # produced
    /\ \A n \in FragmentNames : Len(ContentAtGlob[n]) >= 1
    /\ Len(MergedTable.content)
          = Len(ContentAtGlob[listing[1]]) + Len(ContentAtGlob[listing[2]])

\* C10 as stated: merge does not write a table when the fragment of a
\* source file that was to be preprocessed was absent from the directory.
C10_MissingFragmentFails ==
    mpc = "done" =>
        \A f \in given : dirAtGlob[LookUpTablePath(f)].present

\* C11: a merge that ends with the fragment-not-found error neither creates
\* nor modifies the file look_up_table: the file changes only in the step
\* that completes a merge, never in a step of a merge that fails, so no
\* partial table is written.
C11_NoPartialTable ==
    [][(mpc = "reading" /\ mpc' = "done") \/ table' = table]_vars

C11_Witness ==
    /\ mpc = "error"
    /\ mlut # <<>>
    /\ table.present
    /\ table.content # mlut

\* C12 as stated: source files preprocessed in parallel into one output
\* directory never write the same path: distinct source files have distinct
\* fragment names and distinct point-cloud names, so every point cloud a
\* source file has saved still holds that file's frame and its fragment,
\* while in the directory, holds that file's table.
C12_NoPathWrittenTwice ==
    \A f \in given :
        /\ \A k \in 0..(pj[f] - 1) :
                pcFiles[PointCloudPath(f, k)] = File(PointCloud(f, k))
        /\ (ppc[f] = "done" /\ frag[LookUpTablePath(f)].present) =>
                frag[LookUpTablePath(f)] = File(plut[f])

\* C13 as stated: after a successful merge_look_up_tables(input_path) the
\* merged table is the file look_up_table of the directory input_path,
\* whether input_path is absolute or relative to the working directory of
\* the call.
C13_StoredInInputPath ==
    mpc = "done" => table = File(mlut)

\* the point-cloud files on disk that hold a frame of file f
Persisted(f) ==
    {p \in PcPaths : pcFiles[p].present /\ pcFiles[p].content.file = f}

\* C14 as stated: with a frame limit L, preprocess decodes and persists at
\* most L frames of a file and its table holds at most L - 1 entries.
C14_AtMostLimitFrames ==
    \A f \in SourceFiles : \A L \in limit :
        ppc[f] = "done" =>
            /\ pj[f] <= L
            /\ Cardinality(Persisted(f)) <= L
            /\ Len(plut[f]) <= L - 1

\* the entries of the fragments listed, as many as there are
RECURSIVE LenAll(_, _)
LenAll(names, content) ==
    IF names = <<>> THEN 0
    ELSE Len(content[Head(names)]) + LenAll(Tail(names), content)

\* the look-up tables s and t hold the same entries the same number of times
SameEntries(s, t) ==
    /\ Len(s) = Len(t)
    /\ \A e \in Range(s) \cup Range(t) : Occurrences(s, e) = Occurrences(t, e)

\* the output file is not listed as a fragment, and a merge during which no
\* fragment changed holds every entry of every fragment exactly once
EachFragmentOnce ==
    /\ TablePath \notin Range(listing)
    /\ MergedQuietly =>
          /\ Range(listing) = {n \in FragmentNames : dirAtGlob[n].present}
          /\ Len(MergedTable.content) = LenAll(listing, ContentAtGlob)
          /\ \A n \in Range(listing) : \A i \in 1..Len(ContentAtGlob[n]) :
                  Occurrences(MergedTable.content, ContentAtGlob[n][i]) = 1

\* C17 as stated: a merge run again on a directory whose fragments have not
\* changed yields the same merged table as the run before; the output file
\* is never read back as a fragment and every merge, a merge after one more
\* source file was preprocessed too, holds each fragment's entries exactly
\* once.
C17_SameTableAgain ==
    /\ (MergedQuietly /\ previous.quiet) => MergedTable.content = previous.lut
    /\ EachFragmentOnce

\* C17 amended: the merge run again yields a table of the same entries, each
\* exactly once, in the order in which this run's listing returns the
\* fragments: the same table when both runs list in the same order. The
\* output file is never listed as a fragment and every merge holds each
\* fragment's entries exactly once.
C17_SameEntriesAgain ==
    /\ (MergedQuietly /\ previous.quiet) =>
          /\ SameEntries(MergedTable.content, previous.lut)
          /\ listing = previous.listing => MergedTable.content = previous.lut
    /\ EachFragmentOnce

C17_Witness ==
    /\ MergedQuietly
    /\ previous.quiet
    /\ dirAtGlob[TablePath].present
    /\ dirAtGlob[TablePath].content = previous.lut
    /\ Len(listing) = 2
    /\ listing # previous.listing
    /\ \A n \in Range(listing) : Len(ContentAtGlob[n]) >= 1
    /\ MergedTable.content # previous.lut

\* ------------------------------------------------ properties: SpecFwd
\* the positions of batch element b that hold a point (mask False) of pillar p
ValidAt(b, p) == {i \in Positions : ~batch_mask[b][i] /\ batch_grid[b][i] = p}
\* the embedding the point feature net gives the point at (b, i)
NetAt(b, i) == net[batch_pc[b][i]]
\* the grid scattered from the points with mask False alone
GridOfValidPoints ==
    [b \in Batch |-> [p \in Pillars |->
        IF ValidAt(b, p) = {} THEN ZeroEmbedding
        ELSE [c \in Features |-> MaxOf({NetAt(b, i)[c] : i \in ValidAt(b, p)})]]]

\* C2 as stated: padded positions do not contribute: the scattered grid is
\* the grid of the points with mask False alone, whatever the embeddings
\* and whatever pillar id the padded positions carry.
C2_PaddingDoesNotContribute ==
    fpc = "scattered" => pillar_embeddings = GridOfValidPoints

\* C3 as stated: a pillar with at least one valid point holds the
\* element-wise maximum of exactly its valid points' embeddings, and a pillar
\* with no valid point holds the all-zero vector.
C3_MaxOfValidPoints ==
    fpc = "scattered" =>
        \A b \in Batch : \A p \in Pillars :
            /\ ValidAt(b, p) # {} =>
                  \A c \in Features :
                      /\ \A i \in ValidAt(b, p) :
                            pillar_embeddings[b][p][c] >= NetAt(b, i)[c]
                      /\ \E i \in ValidAt(b, p) :
                            pillar_embeddings[b][p][c] = NetAt(b, i)[c]
            /\ ValidAt(b, p) = {} =>
                  pillar_embeddings[b][p] = ZeroEmbedding

\* C15: _transform_point_cloud_to_embeddings returns a tensor of shape
\* (batch_size, max_points, embedding_features) in which a position with
\* mask True holds the all-zero vector and a position with mask False holds
\* the point feature net's output for the point at the same (batch element,
\* position): flattening and unflattening move no embedding.
C15_EmbeddingsInPlace ==
    fpc # "input" =>
        /\ DOMAIN pc_embedding = Batch
        /\ \A b \in Batch :
            /\ DOMAIN pc_embedding[b] = Positions
            /\ \A i \in Positions :
                /\ DOMAIN pc_embedding[b][i] = Features
                /\ batch_mask[b][i] => pc_embedding[b][i] = ZeroEmbedding
                /\ ~batch_mask[b][i] => pc_embedding[b][i] = NetAt(b, i)

C15_Witness ==
    /\ fpc = "embedded"
    /\ ~batch_mask[0][0] /\ ~batch_mask[0][1]
    /\ ~batch_mask[1][0] /\ batch_mask[1][1]
    /\ net[PadPoint] # ZeroEmbedding
    /\ pc_embedding[1][1] = ZeroEmbedding
    /\ pc_embedding[0][1] # pc_embedding[1][0]
    /\ pc_embedding[0][1] # ZeroEmbedding
    /\ pc_embedding[1][0] # ZeroEmbedding

\* ----------------------------------------------- properties: SpecLoss
\* the positions that hold a point: <<batch element, position>>, mask FALSE
ValidPositions == {q \in Batch \X Positions : ~x_mask[q[1]][q[2]]}
LabelAt(q) == y[q[1]][q[2]][4]
\* the distance d_i between the prediction and the target flow at q
DistanceOf(t, p) ==
    Sqrt((t[1] - p[1]) * (t[1] - p[1]) + (t[2] - p[2]) * (t[2] - p[2])
         + (t[3] - p[3]) * (t[3] - p[3]))
DistanceAt(q) == DistanceOf(y[q[1]][q[2]], y_hat[q[1]][q[2]])
\* the weight w_i the claim gives the point at q
WeightAt(q) ==
    CASE LabelAt(q) = -1 -> 0
      [] LabelAt(q) = 0 -> BackgroundWeight
      [] OTHER -> WeightOne
RECURSIVE SumOver(_, _)
\* the sum of term[q] over the positions q of S
SumOver(S, term) ==
    IF S = {} THEN 0
    ELSE LET q == CHOOSE r \in S : TRUE IN term[q] + SumOver(S \ {q}, term)
\* sum(w_i) and sum(w_i * d_i) over the valid positions
SumOfWeights == SumOver(ValidPositions, [q \in ValidPositions |-> WeightAt(q)])
SumOfWeightedDistances ==
    SumOver(ValidPositions, [q \in ValidPositions |-> WeightAt(q) * DistanceAt(q)])
\* the value v is the number a / b
IsNumber(v, a, b) == v.kind = "number" /\ v.num * b = a * v.den

\* the flows a target or a prediction of the model may hold
TargetFlows == {SubSeq(c.target, 1, 3) : c \in PointCases}
PredFlows == {c.pred : c \in PointCases}
\* the batch with the target flow, or the prediction, at q replaced
WithTarget(q, flow) ==
    [y EXCEPT ![q[1]][q[2]] = flow \o <<LabelAt(q)>>]
WithPrediction(q, flow) ==
    [y_hat EXCEPT ![q[1]][q[2]] = flow]

\* C5: the loss is sum(w_i * d_i) / sum(w_i) over all points passed in,
\* with w_i = 0 for label -1, background_weight for label 0 and 1.0 for
\* every other label; and when sum(w_i) is not zero, another prediction or
\* target flow at a point labelled -1 gives the same loss.
C5_WeightedLoss ==
    (lpc # "input" /\ SumOfWeights # 0) =>
        /\ IsNumber(loss, SumOfWeightedDistances, SumOfWeights)
        /\ \A q \in ValidPositions : LabelAt(q) = -1 =>
              /\ \A flow \in TargetFlows :
                    GeneralStepResult(WithTarget(q, flow), y_hat, x_mask).loss = loss
              /\ \A flow \in PredFlows \cup {PadCase.pred} :
                    GeneralStepResult(y, WithPrediction(q, flow), x_mask).loss = loss

C5_Witness ==
    /\ lpc = "stepped"
    /\ \E q \in ValidPositions : LabelAt(q) = -1 /\ DistanceAt(q) > 0
    /\ \E q \in ValidPositions : LabelAt(q) = 0 /\ DistanceAt(q) > 0
    /\ \E q \in ValidPositions : LabelAt(q) > 0 /\ DistanceAt(q) > 0
    /\ loss.kind = "number" /\ loss.num > 0

\* C6: when every weight is zero (every point is labelled -1, or there is
\* no point), the loss is not-a-number, not 0 or any other number, and
\* general_step and training_step hand it on unchanged.
C6_AllIgnoredIsNaN ==
    (\A q \in ValidPositions : WeightAt(q) = 0) =>
        /\ lpc # "input" => loss = NaN
        /\ lpc = "returned" => returned = NaN

C6_Witness ==
    /\ lpc = "returned"
    /\ ValidPositions # {}
    /\ \A q \in ValidPositions : LabelAt(q) = -1
    /\ \E q \in ValidPositions : DistanceAt(q) > 0
    /\ returned = NaN

\* q comes before r, batch element after batch element
Before(q, r) == q[1] < r[1] \/ (q[1] = r[1] /\ q[2] < r[2])
\* the place of the position q among the valid positions
RankOf(q) == Cardinality({r \in ValidPositions : Before(r, q)}) + 1

\* C7: general_step selects M = number of positions with mask False rows,
\* the i-th target row and the i-th prediction row are those of the same
\* (batch element, position), and no padded position is among them.
C7_SameMaskSameRows ==
    lpc # "input" =>
        /\ Len(sel_y) = Cardinality(ValidPositions)
        /\ Len(sel_y_hat) = Cardinality(ValidPositions)
        /\ \A q \in ValidPositions :
              /\ sel_y[RankOf(q)] = y[q[1]][q[2]]
              /\ sel_y_hat[RankOf(q)] = y_hat[q[1]][q[2]]

C7_Witness ==
    /\ lpc = "stepped"
    /\ x_mask[0][0] /\ ~x_mask[0][1] /\ ~x_mask[1][0] /\ x_mask[1][1]
    /\ Len(sel_y) = 2
    /\ sel_y[1] # sel_y[2]
    /\ sel_y_hat[1] # sel_y_hat[2]

\* the number of valid positions whose distance is below the threshold
BelowThreshold(threshold) ==
    Cardinality({q \in ValidPositions : DistanceAt(q) < threshold})

\* C8: the metrics table has an entry for each of the 2 thresholds (1.0 and
\* 0.1) and 5 classes; each is the fraction of all M points whose distance
\* is strictly below the threshold, whatever their label, so the five
\* entries of a threshold are equal.
C8_GlobalFraction ==
    (lpc # "input" /\ ValidPositions # {}) =>
        /\ DOMAIN metrics = {"1_1", "1_10"}
        /\ \A t \in DOMAIN metrics :
              /\ DOMAIN metrics[t] =
                    {"background", "vehicle", "pedestrian", "sign", "cyclist"}
              /\ \A c \in DOMAIN metrics[t] :
                    /\ IsNumber(metrics[t][c],
                                BelowThreshold(IF t = "1_1" THEN 10 ELSE 1),
                                Cardinality(ValidPositions))
                    /\ metrics[t][c] = metrics[t]["background"]

C8_Witness ==
    /\ lpc = "stepped"
    /\ \E q \in ValidPositions : DistanceAt(q) = 10
    /\ \E q \in ValidPositions : DistanceAt(q) = 1 /\ LabelAt(q) = -1
    /\ \E q \in ValidPositions : DistanceAt(q) = 0
    /\ metrics["1_1"]["cyclist"] # metrics["1_10"]["cyclist"]

\* ----------------------------------------------- properties: SpecGrid
\* C4 as stated: every point the bounds filter retains gets a pillar index
\* with 0 <= ix < n_x and 0 <= iy < n_y, for the n_x, n_y and cell size
\* cli derives.
C4_IndexWithinGrid ==
    gpc = "pillarized" =>
        \A k \in 1..Len(cloud) :
            /\ 0 <= grid_indices[k][1] /\ grid_indices[k][1] < n_pillars_x
            /\ 0 <= grid_indices[k][2] /\ grid_indices[k][2] < n_pillars_y

\* C16 as stated: for every configuration that passes cli's equal-length
\* check the grid is square with grid_size pillars a side, and the pillars
\* cover the configured extent exactly: grid_cell_size * n_pillars_x is
\* x_max - x_min and grid_cell_size * n_pillars_y is y_max - y_min.
C16_SquareGrid ==
    gpc \in {"configured", "filtered", "pillarized"} =>
        /\ n_pillars_x = n_pillars_y
        /\ n_pillars_x = args.grid_size
        /\ grid_cell_size.num * n_pillars_x
              = (args.x_max - args.x_min) * grid_cell_size.den
        /\ grid_cell_size.num * n_pillars_y
              = (args.y_max - args.y_min) * grid_cell_size.den

\* ------------------------------------------------ properties: SpecOpt
\* the hyperparameter, or the fallback when it is None
OrElse(v, fallback) == IF v # None THEN v ELSE fallback

\* C18 as stated: the optimizer's betas are (adam_beta_1, adam_beta_2) of
\* the hyperparameters, 0.9 and 0.999 standing in for a hyperparameter that
\* is None; a module constructed with the default betas gets (0.9, 0.999).
C18_BetasFromHparams ==
    opc = "optimizer" =>
        /\ adam.betas = <<OrElse(hparams.adam_beta_1, FallbackBeta1),
                          OrElse(hparams.adam_beta_2, FallbackBeta2)>>
        /\ (ctor_args.adam_beta_1 = Omitted /\ ctor_args.adam_beta_2 = Omitted)
              => adam.betas = <<DefaultAdamBeta1, DefaultAdamBeta2>>
====
